---- MODULE Spec2Model ----
(***************************************************************************)
(* Fireblocks webhook service (src/main.py): a FastAPI process that        *)
(* receives POST /fireblocks-webhook, filters on the event discriminator,  *)
(* formats a message and relays it to the Telegram bot API.                *)
(*                                                                         *)
(* A request occupies one slot of Slots; the handler of each slot advances *)
(* through the statements of fireblocks_webhook / send_telegram_message,   *)
(* and the steps of different slots interleave freely.                     *)
(***************************************************************************)
EXTENDS Integers, Sequences, FiniteSets, TLC

\* Number of webhook requests one run of the process receives.
MaxReq == 2

Slots == 1..MaxReq

----------------------------------------------------------------------------
\* Python values.  An Optional[str] is None_ or Str(s); an Optional[dict] is
\* NoDict or Dict(f) with f a function from keys to Optional[str] values.

None_ == [t |-> "NoneType", v |-> ""]
Str(s) == [t |-> "str", v |-> s]
NoDict == [t |-> "NoneType", d |-> <<>>]
Dict(f) == [t |-> "dict", d |-> f]

\* bool(x) for an Optional[str]: None and "" are falsy.
Truthy(x) == x.t = "str" /\ x.v # ""

\* bool(x) for an Optional[dict]: None and {} are falsy.
DictTruthy(x) == x.t = "dict" /\ DOMAIN x.d # {}

\* The text an f-string writes for a value: str(None) is "None".
PyFormat(x) == IF x.t = "NoneType" THEN "None" ELSE x.v

\* Variant: only None is replaced, as with "x if x is not None else 'N/A'".
OrNA_NoneOnly(x) == IF x.t = "NoneType" THEN "N/A" ELSE x.v

\* x or 'N/A', written into an f-string.
OrNA(x) == IF Truthy(x) THEN PyFormat(x) ELSE "N/A"

\* x.get('id', 'N/A') if x else 'N/A', written into an f-string.
GetIdOrNA(x) ==
    IF DictTruthy(x)
    THEN (IF "id" \in DOMAIN x.d THEN PyFormat(x.d["id"]) ELSE "N/A")
    ELSE "N/A"

----------------------------------------------------------------------------
\* class FireblocksWebhook: the parsed request body.

FireblocksWebhook(id, source, destination, amount, assetId, createdAt, event) ==
    [id |-> id, source |-> source, destination |-> destination,
     amount |-> amount, assetId |-> assetId, createdAt |-> createdAt,
     event |-> event]

TRANSACTION_CREATED == Str("TRANSACTION_CREATED")

\* The payloads the concurrent specification draws requests from.
Events ==
    { FireblocksWebhook("tx1", NoDict, NoDict, Str("10"), Str("BTC"), None_,
                        TRANSACTION_CREATED),
      FireblocksWebhook("tx2", NoDict, NoDict, None_, None_, None_,
                        Str("TRANSACTION_PENDING")),
      FireblocksWebhook("tx3", Dict([id |-> Str("vault-1")]), NoDict,
                        Str("5"), Str("ETH"), Str("2024-01-01"), None_),
      FireblocksWebhook("tx4", Dict([id |-> Str("vault-1")]),
                        Dict([name |-> Str("ext")]), Str(""), Str("ETH"),
                        Str("2024-01-01"), TRANSACTION_CREATED) }

\* The payloads the formatting specification draws its request from.
OptStrs(s) == {None_, Str(""), Str(s)}
OptDicts(s) ==
    {NoDict, Dict(<<>>), Dict([id |-> Str(s)]), Dict([id |-> None_]),
     Dict([name |-> Str(s)])}
AllEvents ==
    { FireblocksWebhook("tx1", s, d, a, c, t, e) :
        s \in OptDicts("vault-1"), d \in OptDicts("ext-9"),
        a \in OptStrs("10"), c \in OptStrs("BTC"), t \in OptStrs("2024-01-01"),
        e \in {TRANSACTION_CREATED, Str("TRANSACTION_PENDING")} }

\* The f-string template of lines 59-70 after .strip() (the emoji that open
\* its lines are left out), with the six interpolated texts as parameters.
MessageText(id, amount, assetId, createdAt, source, destination) ==
    "<b>New Transaction Created</b>\n\n"
    \o "<b>Transaction ID:</b> <code>" \o id \o "</code>\n"
    \o "<b>Amount:</b> " \o amount \o " " \o assetId \o "\n"
    \o "<b>Created:</b> " \o createdAt \o "\n\n"
    \o "<b>Source:</b> " \o source \o "\n"
    \o "<b>Destination:</b> " \o destination \o "\n\n"
    \o "#Fireblocks #Transaction"

\* def format_transaction_message
format_transaction_message(webhook_data) ==
    MessageText(webhook_data.id,
                OrNA(webhook_data.amount),
                OrNA(webhook_data.assetId),
                OrNA(webhook_data.createdAt),
                GetIdOrNA(webhook_data.source),
                GetIdOrNA(webhook_data.destination))

\* Variant: a missing event is taken for the default event type.
IsTransactionCreated_OrMissing(webhook_data) ==
    webhook_data.event = TRANSACTION_CREATED \/ webhook_data.event = None_

\* if webhook_data.event != "TRANSACTION_CREATED" (negated)
IsTransactionCreated(webhook_data) == webhook_data.event = TRANSACTION_CREATED

----------------------------------------------------------------------------
\* Process-wide configuration: os.environ restricted to the two keys read.

Keys == {"TELEGRAM_BOT_TOKEN", "TELEGRAM_CHAT_ID"}
EnvValues == {None_, Str(""), Str("v")}
Environs == [Keys -> EnvValues]

\* load_dotenv(): a key of the .env file is set unless os.environ has it.
load_dotenv(env, file) ==
    [k \in Keys |-> IF env[k] # None_ THEN env[k] ELSE file[k]]

\* Variant: "and" for "or".
ConfigMissing_And(bot_token, chat_id) == ~Truthy(bot_token) /\ ~Truthy(chat_id)

\* Variant: "is None" for "not", so that an empty value passes.
ConfigMissing_IsNone(bot_token, chat_id) == bot_token = None_ \/ chat_id = None_

\* if not bot_token or not chat_id
ConfigMissing(bot_token, chat_id) == ~Truthy(bot_token) \/ ~Truthy(chat_id)

\* What requests.post comes back with: a response, or an exception.
Response(status_code) == [raised |-> FALSE, status_code |-> status_code]
TransportFault == [raised |-> TRUE, status_code |-> 0]
NoResponse == [raised |-> FALSE, status_code |-> 0]
Answers == {Response(200), Response(201), Response(404), Response(500),
            TransportFault}

\* Variant: response.ok for the comparison with 200.
StatusOk_2xx(response) ==
    ~response.raised /\ response.status_code >= 200 /\ response.status_code <= 299

\* if response.status_code == 200, inside the try
StatusOk(response) == ~response.raised /\ response.status_code = 200

\* The request requests.post sends.
TelegramCall(bot_token, chat_id, message) ==
    [url |-> "https://api.telegram.org/bot" \o bot_token.v \o "/sendMessage",
     json |-> [chat_id |-> chat_id.v, text |-> message, parse_mode |-> "HTML"]]

----------------------------------------------------------------------------
\* Responses of POST /fireblocks-webhook.

NoResult == [status_code |-> 0]
Ignored(event) ==
    [status_code |-> 200, body |-> [message |-> "Event ignored", event |-> event]]
Processed(id) ==
    [status_code |-> 200,
     body |-> [message |-> "Webhook processed successfully",
               transaction_id |-> id]]
HTTPException(status_code, detail) ==
    [status_code |-> status_code, body |-> [detail |-> detail]]

DeliveryFailureDetail == "Failed to send Telegram notification"

\* str(e) of the HTTPException raised at line 98: Starlette releases with
\* HTTPException.__str__ give "500: <detail>", the ones without it give "".
HTTPExceptionStr == {"500: " \o DeliveryFailureDetail, ""}

----------------------------------------------------------------------------
VARIABLES
    proc,            \* "boot" until the module body has run, then "serving"
    environ,         \* os.environ, the two keys
    startupEnviron,  \* history: os.environ as load_dotenv() left it
    pc,              \* per slot: the handler's position
    webhook_data,    \* per slot: the parsed body
    message,         \* per slot: local of fireblocks_webhook
    cfg,             \* per slot: bot_token and chat_id, locals of the notifier
    response,        \* per slot: local of the notifier
    success,         \* per slot: "unset", "True" or "False"
    result,          \* per slot: the HTTP response sent to the caller
    outbound,        \* per slot: the requests.post calls made
    calls            \* per slot: entries into send_telegram_message

vars == <<proc, environ, startupEnviron, pc, webhook_data, message, cfg,
          response, success, result, outbound, calls>>

reqVars == <<pc, webhook_data, message, cfg, response, success, result,
             outbound, calls>>

NoEvent == FireblocksWebhook("", NoDict, NoDict, None_, None_, None_, None_)
NoCfg == [bot_token |-> None_, chat_id |-> None_]

Init ==
    /\ proc = "boot"
    /\ environ \in Environs
    /\ startupEnviron = environ
    /\ pc = [r \in Slots |-> "idle"]
    /\ webhook_data = [r \in Slots |-> NoEvent]
    /\ message = [r \in Slots |-> ""]
    /\ cfg = [r \in Slots |-> NoCfg]
    /\ response = [r \in Slots |-> NoResponse]
    /\ success = [r \in Slots |-> "unset"]
    /\ result = [r \in Slots |-> NoResult]
    /\ outbound = [r \in Slots |-> <<>>]
    /\ calls = [r \in Slots |-> 0]

\* Module body, lines 9-16: load_dotenv() and the app object.
Startup ==
    /\ proc = "boot"
    /\ \E file \in Environs :
         /\ environ' = load_dotenv(environ, file)
         /\ startupEnviron' = load_dotenv(environ, file)
    /\ proc' = "serving"
    /\ UNCHANGED reqVars

\* The framework hands a parsed body to fireblocks_webhook (lines 78-82).
Receive(r, payloads) ==
    /\ proc = "serving"
    /\ pc[r] = "idle"
    /\ \E e \in payloads : webhook_data' = [webhook_data EXCEPT ![r] = e]
    /\ pc' = [pc EXCEPT ![r] = "check"]
    /\ UNCHANGED <<proc, environ, startupEnviron, message, cfg, response,
                   success, result, outbound, calls>>

\* Lines 85-87: the event discriminator.
CheckEvent(r) ==
    /\ pc[r] = "check"
    /\ IF IsTransactionCreated(webhook_data[r])
       THEN /\ pc' = [pc EXCEPT ![r] = "format"]
            /\ UNCHANGED result
       ELSE /\ pc' = [pc EXCEPT ![r] = "done"]
            /\ result' = [result EXCEPT ![r] = Ignored(webhook_data[r].event)]
    /\ UNCHANGED <<proc, environ, startupEnviron, webhook_data, message, cfg,
                   response, success, outbound, calls>>

\* Line 90.
Format(r) ==
    /\ pc[r] = "format"
    /\ message' = [message EXCEPT ![r] =
                      format_transaction_message(webhook_data[r])]
    /\ pc' = [pc EXCEPT ![r] = "send"]
    /\ UNCHANGED <<proc, environ, startupEnviron, webhook_data, cfg, response,
                   success, result, outbound, calls>>

\* Variant: the notifier uses settings captured when the process started.
ReadConfig_Startup(r) ==
    /\ pc[r] = "send"
    /\ calls' = [calls EXCEPT ![r] = @ + 1]
    /\ cfg' = [cfg EXCEPT ![r] =
                  [bot_token |-> startupEnviron["TELEGRAM_BOT_TOKEN"],
                   chat_id |-> startupEnviron["TELEGRAM_CHAT_ID"]]]
    /\ IF ConfigMissing(startupEnviron["TELEGRAM_BOT_TOKEN"],
                        startupEnviron["TELEGRAM_CHAT_ID"])
       THEN /\ success' = [success EXCEPT ![r] = "False"]
            /\ pc' = [pc EXCEPT ![r] = "respond"]
       ELSE /\ pc' = [pc EXCEPT ![r] = "post"]
            /\ UNCHANGED success
    /\ UNCHANGED <<proc, environ, startupEnviron, webhook_data, message,
                   response, result, outbound>>

\* Line 91 into send_telegram_message, lines 30-35.
ReadConfig(r) ==
    /\ pc[r] = "send"
    /\ calls' = [calls EXCEPT ![r] = @ + 1]
    /\ cfg' = [cfg EXCEPT ![r] = [bot_token |-> environ["TELEGRAM_BOT_TOKEN"],
                                  chat_id |-> environ["TELEGRAM_CHAT_ID"]]]
    /\ IF ConfigMissing(environ["TELEGRAM_BOT_TOKEN"],
                        environ["TELEGRAM_CHAT_ID"])
       THEN /\ success' = [success EXCEPT ![r] = "False"]
            /\ pc' = [pc EXCEPT ![r] = "respond"]
       ELSE /\ pc' = [pc EXCEPT ![r] = "post"]
            /\ UNCHANGED success
    /\ UNCHANGED <<proc, environ, startupEnviron, webhook_data, message,
                   response, result, outbound>>

\* Variant: a submission that did not succeed is sent a second time.
Post_Retry(r) ==
    /\ pc[r] = "post"
    /\ \E a \in Answers :
         /\ response' = [response EXCEPT ![r] = a]
         /\ success' = [success EXCEPT ![r] =
                           IF StatusOk(a) THEN "True" ELSE "False"]
         /\ outbound' = [outbound EXCEPT ![r] =
              IF StatusOk(a)
              THEN Append(@, TelegramCall(cfg[r].bot_token, cfg[r].chat_id,
                                          message[r]))
              ELSE Append(Append(@, TelegramCall(cfg[r].bot_token,
                                                 cfg[r].chat_id, message[r])),
                          TelegramCall(cfg[r].bot_token, cfg[r].chat_id,
                                       message[r]))]
    /\ pc' = [pc EXCEPT ![r] = "respond"]
    /\ UNCHANGED <<proc, environ, startupEnviron, webhook_data, message, cfg,
                   result, calls>>

\* Variant: the message is kept in one module-level variable, so a call
\* sends the text of whichever request formatted last.
Post_SharedMessage(r) ==
    /\ pc[r] = "post"
    /\ \E s \in Slots :
         /\ message[s] # ""
         /\ outbound' = [outbound EXCEPT ![r] =
                Append(@, TelegramCall(cfg[r].bot_token, cfg[r].chat_id,
                                       message[s]))]
    /\ \E a \in Answers :
         /\ response' = [response EXCEPT ![r] = a]
         /\ success' = [success EXCEPT ![r] =
                           IF StatusOk(a) THEN "True" ELSE "False"]
    /\ pc' = [pc EXCEPT ![r] = "respond"]
    /\ UNCHANGED <<proc, environ, startupEnviron, webhook_data, message, cfg,
                   result, calls>>

\* Lines 37-55: the one requests.post and the reading of its outcome.
Post(r) ==
    /\ pc[r] = "post"
    /\ outbound' = [outbound EXCEPT ![r] =
                       Append(@, TelegramCall(cfg[r].bot_token, cfg[r].chat_id,
                                              message[r]))]
    /\ \E a \in Answers :
         /\ response' = [response EXCEPT ![r] = a]
         /\ success' = [success EXCEPT ![r] =
                           IF StatusOk(a) THEN "True" ELSE "False"]
    /\ pc' = [pc EXCEPT ![r] = "respond"]
    /\ UNCHANGED <<proc, environ, startupEnviron, webhook_data, message, cfg,
                   result, calls>>

\* Variant: the notifier's return value is not looked at.
Respond_IgnoreFailure(r) ==
    /\ pc[r] = "respond"
    /\ result' = [result EXCEPT ![r] = Processed(webhook_data[r].id)]
    /\ pc' = [pc EXCEPT ![r] = "done"]
    /\ UNCHANGED <<proc, environ, startupEnviron, webhook_data, message, cfg,
                   response, success, outbound, calls>>

\* Lines 93-102: the HTTPException of line 98 is raised inside the try, so
\* the handler of line 100 catches it and raises the one of line 102.
Respond(r) ==
    /\ pc[r] = "respond"
    /\ IF success[r] = "True"
       THEN result' = [result EXCEPT ![r] = Processed(webhook_data[r].id)]
       ELSE \E s \in HTTPExceptionStr :
              result' = [result EXCEPT ![r] =
                  HTTPException(500, "Internal server error: " \o s)]
    /\ pc' = [pc EXCEPT ![r] = "done"]
    /\ UNCHANGED <<proc, environ, startupEnviron, webhook_data, message, cfg,
                   response, success, outbound, calls>>

\* Code outside main.py running in the process assigns or deletes one of
\* the two keys of os.environ.
EnvChange ==
    /\ proc = "serving"
    /\ \E k \in Keys, v \in EnvValues :
         /\ environ[k] # v
         /\ environ' = [environ EXCEPT ![k] = v]
    /\ UNCHANGED <<proc, startupEnviron>>
    /\ UNCHANGED reqVars

\* The framework sends the response; the request's objects are dropped and
\* the slot is free for a later request.
SendResponse(r) ==
    /\ pc[r] = "done"
    /\ pc' = [pc EXCEPT ![r] = "idle"]
    /\ webhook_data' = [webhook_data EXCEPT ![r] = NoEvent]
    /\ message' = [message EXCEPT ![r] = ""]
    /\ cfg' = [cfg EXCEPT ![r] = NoCfg]
    /\ response' = [response EXCEPT ![r] = NoResponse]
    /\ success' = [success EXCEPT ![r] = "unset"]
    /\ result' = [result EXCEPT ![r] = NoResult]
    /\ outbound' = [outbound EXCEPT ![r] = <<>>]
    /\ calls' = [calls EXCEPT ![r] = 0]
    /\ UNCHANGED <<proc, environ, startupEnviron>>

\* GET / and GET /health (lines 73-76, 104-111): a fixed body, no state.
health_check ==
    /\ proc = "serving"
    /\ UNCHANGED vars

Handle(r) ==
    \/ CheckEvent(r)
    \/ Format(r)
    \/ ReadConfig(r)
    \/ Post(r)
    \/ Respond(r)
    \/ SendResponse(r)

Next ==
    \/ Startup
    \/ health_check
    \/ \E r \in Slots : Receive(r, Events)
    \/ \E r \in Slots : Handle(r)

Spec == Init /\ [][Next]_vars

\* One request drawn from every shape of payload.
NextFormat ==
    \/ Startup
    \/ Receive(1, AllEvents)
    \/ Handle(1)

SpecFormat == Init /\ [][NextFormat]_vars

\* The process together with code that changes os.environ while it serves.
NextEnv ==
    \/ Startup
    \/ Receive(1, Events)
    \/ Handle(1)
    \/ EnvChange

SpecEnv == Init /\ [][NextEnv]_vars

----------------------------------------------------------------------------
\* Properties.

Token == "TELEGRAM_BOT_TOKEN"
Chat == "TELEGRAM_CHAT_ID"

\* A configuration value that is unset, or set to the empty string.
Absent(x) == x = None_ \/ x = Str("")
BothPresent(env) == ~Absent(env[Token]) /\ ~Absent(env[Chat])
EventIsCreated(r) == webhook_data[r].event = Str("TRANSACTION_CREATED")
Ids == {e.id : e \in Events \cup AllEvents}
GenericFailures ==
    {HTTPException(500, "Internal server error: " \o s) : s \in HTTPExceptionStr}

\* C1: a request whose event is not "TRANSACTION_CREATED" (a missing event
\* included) never reaches the notifier, makes no outbound call, and ends
\* with the 200 "Event ignored" acknowledgment carrying the received event.
C1_IgnoredWithoutOutbound ==
    \A r \in Slots :
        (pc[r] # "idle" /\ ~EventIsCreated(r)) =>
            /\ pc[r] \in {"check", "done"}
            /\ calls[r] = 0
            /\ outbound[r] = <<>>
            /\ pc[r] = "done" => result[r] = Ignored(webhook_data[r].event)

C1_Witness ==
    \E r \in Slots :
        /\ pc[r] = "done"
        /\ webhook_data[r].event = None_
        /\ BothPresent(environ)
        /\ result[r] = Ignored(None_)

\* C2 as stated: a finished "TRANSACTION_CREATED" request has made exactly
\* one outbound call, whatever the configuration.
C2_ExactlyOneOutbound ==
    \A r \in Slots :
        (pc[r] = "done" /\ EventIsCreated(r)) => Len(outbound[r]) = 1

\* C2 amended: a "TRANSACTION_CREATED" request enters the notifier exactly
\* once, and makes exactly one outbound call when both configuration values
\* are present and none when one is absent; no request makes more than one.
C2_OneCallOneSubmissionIfConfigured ==
    \A r \in Slots :
        /\ calls[r] <= 1
        /\ Len(outbound[r]) <= 1
        /\ (pc[r] = "done" /\ EventIsCreated(r)) =>
              /\ calls[r] = 1
              /\ Len(outbound[r]) = (IF BothPresent(environ) THEN 1 ELSE 0)

C2_Witness ==
    \E r, q \in Slots :
        /\ pc[r] = "done" /\ EventIsCreated(r)
        /\ ~Absent(environ[Token]) /\ Absent(environ[Chat])
        /\ calls[r] = 1 /\ outbound[r] = <<>>
        /\ pc[q] = "done" /\ ~EventIsCreated(q)

\* C3: with the bot token or the chat id absent, the notifier returns
\* failure without any outbound call and the request ends with status 500.
C3_MissingConfigFailsWithoutIO ==
    \A r \in Slots :
        (calls[r] = 1 /\ ~BothPresent(environ)) =>
            /\ success[r] = "False"
            /\ outbound[r] = <<>>
            /\ response[r] = NoResponse
            /\ pc[r] \in {"respond", "done"}
            /\ pc[r] = "done" => result[r].status_code = 500

C3_Witness ==
    \E r \in Slots :
        /\ pc[r] = "done" /\ EventIsCreated(r)
        /\ environ[Token] = Str("") /\ environ[Chat] = Str("v")
        /\ result[r].status_code = 500
        /\ outbound[r] = <<>>

\* C4 as stated: when the notifier fails, the request ends with status 500
\* and the delivery-failure detail, not with the generic internal-error one.
C4_DeliveryFailureDetail ==
    \A r \in Slots :
        (pc[r] = "done" /\ success[r] = "False") =>
            /\ result[r] = HTTPException(500, DeliveryFailureDetail)
            /\ result[r] \notin GenericFailures

\* C5: a request ends with the "Webhook processed successfully"
\* acknowledgment exactly when its event is "TRANSACTION_CREATED", both
\* configuration values are present and its one outbound call was answered
\* with status 200; the acknowledgment carries the request's own id.
C5_ProcessedIffDelivered ==
    \A r \in Slots :
        pc[r] = "done" =>
            /\ (result[r] \in {Processed(i) : i \in Ids}) <=>
                   /\ EventIsCreated(r)
                   /\ BothPresent(environ)
                   /\ Len(outbound[r]) = 1
                   /\ response[r] = Response(200)
            /\ (result[r] \in {Processed(i) : i \in Ids}) =>
                   result[r] = Processed(webhook_data[r].id)

C5_Witness ==
    \E r, q \in Slots :
        /\ pc[r] = "done" /\ result[r] = Processed("tx1")
        /\ pc[q] = "done" /\ webhook_data[q].id = "tx4"
        /\ response[q] = Response(404)

\* C6 as stated: the notifier reports success exactly for the responses
\* with a status from 200 to 299.
C6_SuccessIff2xx ==
    \A r \in Slots :
        (pc[r] \in {"respond", "done"} /\ Len(outbound[r]) = 1) =>
            (success[r] = "True" <=>
                /\ ~response[r].raised
                /\ response[r].status_code >= 200
                /\ response[r].status_code <= 299)

\* C6 amended: the notifier reports success exactly for a response with
\* status 200, and failure for every other status (201 to 299 included) and
\* for every transport fault.
C6_SuccessIff200 ==
    \A r \in Slots :
        (pc[r] \in {"respond", "done"} /\ Len(outbound[r]) = 1) =>
            /\ success[r] \in {"True", "False"}
            /\ success[r] = "True" <=> response[r] = Response(200)

C6_Witness ==
    \E r, q \in Slots :
        /\ response[r] = Response(201) /\ success[r] = "False"
        /\ response[q] = TransportFault /\ success[q] = "False"

\* The text each field would have under C7 as stated: "N/A" when the field
\* is missing (or the mapping has no id), the supplied value otherwise.
SuppliedOrNA(x) == IF x = None_ THEN "N/A" ELSE x.v
SuppliedIdOrNA(x) ==
    IF x = NoDict THEN "N/A"
    ELSE IF "id" \notin DOMAIN x.d THEN "N/A"
    ELSE IF x.d["id"] = None_ THEN "N/A"
    ELSE x.d["id"].v

\* C7 as stated: each of the five optional fields is written as "N/A" when
\* missing and as its supplied value when present.
C7_SuppliedValueWhenPresent ==
    \A r \in Slots :
        message[r] # "" =>
            message[r] = MessageText(webhook_data[r].id,
                                     SuppliedOrNA(webhook_data[r].amount),
                                     SuppliedOrNA(webhook_data[r].assetId),
                                     SuppliedOrNA(webhook_data[r].createdAt),
                                     SuppliedIdOrNA(webhook_data[r].source),
                                     SuppliedIdOrNA(webhook_data[r].destination))

\* The text each field has under C7 amended.
EmptyOrNA(x) == IF x = None_ \/ x = Str("") THEN "N/A" ELSE x.v
IdOrNA(x) ==
    IF x = NoDict \/ x = Dict(<<>>) THEN "N/A"
    ELSE IF "id" \notin DOMAIN x.d THEN "N/A"
    ELSE IF x.d["id"] = None_ THEN "None"
    ELSE x.d["id"].v

\* C7 amended: amount, assetId and createdAt are written as "N/A" when
\* missing or empty and as supplied otherwise; source and destination are
\* written as "N/A" when missing, empty or without an id key, as "None" when
\* the id is null, and as the id otherwise; each text depends on its own
\* field alone, and a request fails only when the notifier reports failure.
C7_FalsyFieldsRenderNA ==
    \A r \in Slots :
        /\ message[r] # "" =>
              message[r] = MessageText(webhook_data[r].id,
                                       EmptyOrNA(webhook_data[r].amount),
                                       EmptyOrNA(webhook_data[r].assetId),
                                       EmptyOrNA(webhook_data[r].createdAt),
                                       IdOrNA(webhook_data[r].source),
                                       IdOrNA(webhook_data[r].destination))
        /\ (pc[r] \in {"send", "post", "respond"} \/
            (pc[r] = "done" /\ EventIsCreated(r))) => message[r] # ""
        /\ (pc[r] = "done" /\ result[r].status_code # 200) =>
              success[r] = "False"

C7_Witness ==
    /\ pc[1] = "done"
    /\ webhook_data[1].amount = None_
    /\ webhook_data[1].assetId = Str("BTC")
    /\ webhook_data[1].createdAt = Str("")
    /\ webhook_data[1].source = Dict([name |-> Str("vault-1")])
    /\ webhook_data[1].destination = Dict([id |-> None_])
    /\ message[1] = MessageText("tx1", "N/A", "BTC", "N/A", "N/A", "None")
    /\ result[1] = Processed("tx1")

\* C8 as stated: every notifier call uses the configuration values that
\* were in effect when the process started.
C8_StartupValuesUsed ==
    \A r \in Slots :
        calls[r] = 1 =>
            cfg[r] = [bot_token |-> startupEnviron[Token],
                      chat_id |-> startupEnviron[Chat]]

\* C8 amended: the notifier reads both values from the process environment
\* at each call and goes on to the outbound call exactly when both are
\* present at that moment; after startup no step of the service itself
\* changes the environment.
C8_ReadAtEachCall ==
    [][\A r \in Slots :
          /\ calls'[r] = calls[r] + 1 =>
                /\ cfg'[r] = [bot_token |-> environ[Token],
                              chat_id |-> environ[Chat]]
                /\ pc'[r] = "post" <=> BothPresent(environ)
                /\ pc'[r] = "respond" <=> ~BothPresent(environ)
          /\ (proc = "serving" /\ environ' # environ) => reqVars' = reqVars
      ]_vars

C8_Witness ==
    /\ pc[1] = "done"
    /\ ~BothPresent(startupEnviron)
    /\ environ # startupEnviron
    /\ cfg[1] = [bot_token |-> environ[Token], chat_id |-> environ[Chat]]
    /\ result[1] \in {Processed(i) : i \in Ids}

\* C9: a notifier call ends in one step as sent or failed; it makes at most
\* one outbound call, a failed call is not sent again, the outcome does not
\* change for the rest of the request, and after a failure the process keeps
\* serving: every free slot can still take a request.
C9_NotifierOneShot ==
    /\ [](\A r \in Slots :
             /\ Len(outbound[r]) <= 1
             /\ calls[r] <= 1
             /\ success[r] \in {"unset", "True", "False"}
             /\ (proc = "serving" /\ pc[r] = "idle") =>
                   ENABLED Receive(r, Events))
    /\ [][\A r \in Slots :
             /\ (success[r] # "unset" /\ pc'[r] # "idle") =>
                   /\ success'[r] = success[r]
                   /\ outbound'[r] = outbound[r]
                   /\ calls'[r] = calls[r]
             /\ (success[r] = "unset" /\ success'[r] # "unset") =>
                   /\ calls'[r] = 1
                   /\ Len(outbound'[r]) <= 1
             /\ proc = "serving" => proc' = "serving"
         ]_vars

C9_Witness ==
    \E r, q \in Slots :
        /\ pc[r] = "done" /\ success[r] = "False" /\ Len(outbound[r]) = 1
        /\ pc[q] = "done" /\ success[q] = "True"

\* What a request handled alone answers and sends, from its payload, the
\* configuration and the provider's answer.
AloneOutbound(wd, env) ==
    IF wd.event = Str("TRANSACTION_CREATED") /\ BothPresent(env)
    THEN <<TelegramCall(env[Token], env[Chat], format_transaction_message(wd))>>
    ELSE <<>>
AloneResults(wd, env, answer) ==
    IF wd.event # Str("TRANSACTION_CREATED") THEN {Ignored(wd.event)}
    ELSE IF BothPresent(env) /\ answer = Response(200) THEN {Processed(wd.id)}
    ELSE GenericFailures

\* C10: with requests interleaved in any order, each request's response and
\* outbound call (count and text) are those it has when handled alone: they
\* follow from its own payload, the configuration and the provider's answer
\* to its own call.
C10_RequestsIndependent ==
    \A r \in Slots :
        /\ pc[r] \in {"respond", "done"} =>
              outbound[r] = AloneOutbound(webhook_data[r], environ)
        /\ pc[r] = "done" =>
              result[r] \in AloneResults(webhook_data[r], environ, response[r])

C10_Witness ==
    \E r, q \in Slots :
        /\ r # q
        /\ pc[r] = "done" /\ webhook_data[r].id = "tx1"
        /\ pc[q] = "done" /\ webhook_data[q].id = "tx4"
        /\ Len(outbound[r]) = 1 /\ Len(outbound[q]) = 1
        /\ outbound[r][1].json.text # outbound[q][1].json.text
        /\ result[r] = Processed("tx1")
        /\ result[q] \in GenericFailures

====
